---- MODULE Spec2Model ----
(***************************************************************************)
(* Model of the SSH syslog plugin (plaso/parsers/syslog_plugins/ssh.py).   *)
(*                                                                         *)
(* A message body is a sequence of one-character strings.  The three       *)
(* pyparsing grammars of SSHSyslogPlugin are modelled element by element:   *)
(* the operator of an element takes the position reached so far (1-based,  *)
(* Fail when an earlier element did not match) and returns the position    *)
(* after its own match.                                                    *)
(***************************************************************************)
EXTENDS Integers, Sequences, FiniteSets, TLC

VARIABLES
  input,          \* how the body of the line was put together (test input)
  body,           \* the message body handed to the plugin
  maxLookahead,   \* whether Word(max=n) rejects an over-long run itself
  pc,             \* position of the line in the pipeline
  key,            \* name of the grammar that matched, or NoMatch
  tokens,         \* token mapping of the matching grammar
  sink,           \* event data handed to parser_mediator.ProduceEventData
  error,          \* error raised by the last _ParseMessage call
  calls           \* number of direct _ParseMessage calls made

vars == <<input, body, maxLookahead, pc, key, tokens, sink, error, calls>>

----------------------------------------------------------------------------
(* Character classes of pyparsing.                                         *)

nums == {"0", "1", "2", "3", "4", "5", "6", "7", "8", "9"}

alphas ==
  {"a", "b", "c", "d", "e", "f", "g", "h", "i", "j", "k", "l", "m",
   "n", "o", "p", "q", "r", "s", "t", "u", "v", "w", "x", "y", "z",
   "A", "B", "C", "D", "E", "F", "G", "H", "I", "J", "K", "L", "M",
   "N", "O", "P", "Q", "R", "S", "T", "U", "V", "W", "X", "Y", "Z"}

alphanums == alphas \cup nums

hexnums == nums \cup {"A", "B", "C", "D", "E", "F", "a", "b", "c", "d", "e", "f"}

\* Keyword.DEFAULT_KEYWORD_CHARS
identChars == alphanums \cup {"_", "$"}

\* ParserElement.DEFAULT_WHITE_CHARS
White == {" ", "\t", "\n", "\r"}

\* LineEnd does not skip the line break it is looking for
LineWhite == White \ {"\n"}

Fail == 0

----------------------------------------------------------------------------
(* Literals of the grammars.                                               *)

LitAccepted == <<"A", "c", "c", "e", "p", "t", "e", "d">>
LitFailed == <<"F", "a", "i", "l", "e", "d">>
LitConnectionFrom ==
  <<"C", "o", "n", "n", "e", "c", "t", "i", "o", "n", " ", "f", "r", "o", "m">>
LitPassword == <<"p", "a", "s", "s", "w", "o", "r", "d">>
LitPublickey == <<"p", "u", "b", "l", "i", "c", "k", "e", "y">>
LitFor == <<"f", "o", "r">>
LitFrom == <<"f", "r", "o", "m">>
LitPort == <<"p", "o", "r", "t">>
LitSsh2 == <<"s", "s", "h", "2">>
LitColon == <<":">>
LitRSA == <<"R", "S", "A", " ">>
LitMixedPrefix == <<":", ":", "f", "f", "f", "f", ":">>
LitDoubleColon == <<":", ":">>

----------------------------------------------------------------------------
(* Parser elements.                                                        *)

\* ParserElement.preParse: skip the element's whitespace characters
RECURSIVE PreParse(_, _, _)
PreParse(s, loc, white) ==
  IF loc <= Len(s) /\ s[loc] \in white
    THEN PreParse(s, loc + 1, white)
    ELSE loc

StartsWith(s, loc, lit) ==
  /\ loc + Len(lit) - 1 <= Len(s)
  /\ \A i \in 1..Len(lit) : s[loc + i - 1] = lit[i]

\* the text an element matched: from the end of the skipped whitespace
Text(s, from, to) == SubSeq(s, PreParse(s, from, White), to - 1)

\* Literal without whitespace skipping (inside Combine)
LiteralHere(s, loc, lit) ==
  IF loc = Fail THEN Fail
  ELSE IF StartsWith(s, loc, lit) THEN loc + Len(lit) ELSE Fail

Literal(s, loc, lit) ==
  IF loc = Fail THEN Fail ELSE LiteralHere(s, PreParse(s, loc, White), lit)

\* Keyword: the literal, not followed and not preceded by a keyword character
Keyword(s, loc, kw) ==
  IF loc = Fail THEN Fail
  ELSE LET p == PreParse(s, loc, White)
       IN  IF /\ StartsWith(s, p, kw)
              /\ (p + Len(kw) > Len(s) \/ s[p + Len(kw)] \notin identChars)
              /\ (p = 1 \/ s[p - 1] \notin identChars)
             THEN p + Len(kw)
             ELSE Fail

\* end of the run of chars starting at loc, not going beyond maxloc
RECURSIVE RunEnd(_, _, _, _)
RunEnd(s, loc, chars, maxloc) ==
  IF loc < maxloc /\ s[loc] \in chars
    THEN RunEnd(s, loc + 1, chars, maxloc)
    ELSE loc

Min(a, b) == IF a <= b THEN a ELSE b

\* Word(chars, max=max) without whitespace skipping; max = 0 is unbounded.
\* lookahead: the element itself fails when the run goes on past max
\* characters; otherwise it matches the first max characters and leaves the
\* rest to the next element.
WordHere(s, p, chars, max, lookahead) ==
  IF p = Fail \/ p > Len(s) THEN Fail
  ELSE IF s[p] \notin chars THEN Fail
  ELSE LET maxloc == IF max = 0 THEN Len(s) + 1 ELSE Min(p + max, Len(s) + 1)
           e == RunEnd(s, p + 1, chars, maxloc)
       IN  IF max > 0 /\ lookahead /\ e <= Len(s) /\ s[e] \in chars
             THEN Fail
             ELSE e

Word(s, loc, chars, max, lookahead) ==
  IF loc = Fail THEN Fail
  ELSE WordHere(s, PreParse(s, loc, White), chars, max, lookahead)

\* StringEnd left out of a grammar: nothing is required after its elements
StringEndMissing(s, loc) == loc

\* StringEnd: skips whitespace, then requires the end of the input
StringEnd(s, loc) ==
  IF loc = Fail THEN Fail
  ELSE LET p == PreParse(s, loc, White)
       IN  IF p > Len(s) THEN p ELSE Fail

\* StringEnd where LineEnd belongs: the end of the input is required
LineEndAsStringEnd(s, loc) ==
  IF loc = Fail THEN Fail
  ELSE IF PreParse(s, loc, White) > Len(s) THEN PreParse(s, loc, White)
  ELSE Fail

\* LineEnd: skips whitespace other than the line break, then requires a line
\* break or the end of the input
LineEnd(s, loc) ==
  IF loc = Fail THEN Fail
  ELSE LET p == PreParse(s, loc, LineWhite)
       IN  IF p > Len(s) THEN p
           ELSE IF s[p] = "\n" THEN p + 1 ELSE Fail

----------------------------------------------------------------------------
(* pyparsing_common.ipv4_address and ipv6_address.  An intermediate        *)
(* position is bound to a variable ranging over a one-element set, so that *)
(* it is computed once.                                                    *)

DigitAt(s, p) == p <= Len(s) /\ s[p] \in nums

\* lengths of the text at p that 25[0-5]|2[0-4][0-9]|1?[0-9]{1,2} can match
OctetLens(s, p) ==
  {L \in 1..3 :
     /\ \A i \in 0..(L - 1) : DigitAt(s, p + i)
     /\ L = 3 =>
          \/ s[p] = "1"
          \/ s[p] = "2" /\ s[p + 1] \in {"0", "1", "2", "3", "4"}
          \/ s[p] = "2" /\ s[p + 1] = "5"
               /\ s[p + 2] \in {"0", "1", "2", "3", "4", "5"}}

Max(S) == CHOOSE x \in S : \A y \in S : y <= x

\* an octet and the dot after it: the dot decides how long the octet is
OctetDot(s, p) ==
  IF p = Fail THEN Fail
  ELSE CHOOSE r \in
         {IF c = {} THEN Fail ELSE p + Max(c) + 1 :
            c \in {{L \in OctetLens(s, p) :
                      p + L <= Len(s) /\ s[p + L] = "."}}} : TRUE

\* n octets, each with its dot
RECURSIVE OctetDots(_, _, _)
OctetDots(s, p, n) ==
  IF n = 0 \/ p = Fail THEN p
  ELSE CHOOSE r \in
         {OctetDots(s, q, m) : q \in {OctetDot(s, p)}, m \in {n - 1}} : TRUE

\* the last octet: the regular expression takes the longest alternative
LastOctet(s, p) ==
  IF p = Fail THEN Fail
  ELSE CHOOSE r \in
         {IF c = {} THEN Fail ELSE p + Max(c) : c \in {OctetLens(s, p)}} : TRUE

ipv4_address(s, p) ==
  CHOOSE r \in {LastOctet(s, q) : q \in {OctetDots(s, p, 3)}} : TRUE

\* _ipv6_part: [0-9a-fA-F]{1,4}
ipv6_part(s, p) ==
  IF p = Fail \/ p > Len(s) THEN Fail
  ELSE IF s[p] \notin hexnums THEN Fail
  ELSE RunEnd(s, p + 1, hexnums, Min(p + 4, Len(s) + 1))

ColonPart(s, p) == ipv6_part(s, LiteralHere(s, p, LitColon))

\* (':' + _ipv6_part) * n
RECURSIVE Exactly(_, _, _)
Exactly(s, p, n) ==
  IF n = 0 \/ p = Fail THEN p
  ELSE CHOOSE r \in
         {Exactly(s, q, m) : q \in {ColonPart(s, p)}, m \in {n - 1}} : TRUE

\* (':' + _ipv6_part) * (0, n) after cnt parts: the position reached and the
\* number of parts matched
RECURSIVE UpTo(_, _, _, _)
UpTo(s, p, n, cnt) ==
  IF n = 0 THEN [loc |-> p, cnt |-> cnt]
  ELSE CHOOSE r \in
         {IF q = Fail THEN [loc |-> p, cnt |-> cnt] ELSE UpTo(s, q, m, c) :
            q \in {ColonPart(s, p)}, m \in {n - 1}, c \in {cnt + 1}} : TRUE

\* Optional(_ipv6_part + (':' + _ipv6_part) * (0, 6))
OptParts(s, p) ==
  CHOOSE r \in
    {IF q = Fail THEN [loc |-> p, cnt |-> 0] ELSE UpTo(s, q, 6, 1) :
       q \in {ipv6_part(s, p)}} : TRUE

full_ipv6_address(s, p) ==
  CHOOSE r \in {Exactly(s, q, 7) : q \in {ipv6_part(s, p)}} : TRUE

mixed_ipv6_address(s, p) ==
  CHOOSE r \in
    {ipv4_address(s, q) : q \in {LiteralHere(s, p, LitMixedPrefix)}} : TRUE

\* what follows the parts a: "::" and more parts, fewer than 8 parts in all
ShortTail(s, a) ==
  CHOOSE r \in
    {IF d = Fail THEN Fail
     ELSE CHOOSE t \in
            {IF a.cnt + b.cnt < 8 THEN b.loc ELSE Fail :
               b \in {OptParts(s, d)}} : TRUE :
       d \in {LiteralHere(s, a.loc, LitDoubleColon)}} : TRUE

\* the short form, with its condition that fewer than 8 parts were matched
short_ipv6_address(s, p) ==
  CHOOSE r \in {ShortTail(s, a) : a \in {OptParts(s, p)}} : TRUE

\* the first of the alternatives c to match
FirstMatching(c) ==
  IF c = <<>> THEN Fail
  ELSE IF \A n \in 1..Len(c) : c[n] = Fail THEN Fail
  ELSE c[CHOOSE n \in 1..Len(c) :
           c[n] # Fail /\ \A m \in 1..(n - 1) : c[m] = Fail]

ipv6_address(s, p) ==
  CHOOSE r \in
    {FirstMatching(c) :
       c \in {<<full_ipv6_address(s, p), mixed_ipv6_address(s, p),
                short_ipv6_address(s, p)>>}} : TRUE

----------------------------------------------------------------------------
(* Sub-parsers of SSHSyslogPlugin.                                         *)

\* any word taken for the authentication method
AUTHENTICATION_METHOD_AnyWord(s, loc) == Word(s, loc, alphanums, 0, FALSE)

AUTHENTICATION_METHOD(s, loc) ==
  CHOOSE r \in
    {FirstMatching(c) :
       c \in {<<Keyword(s, loc, LitPassword),
                Keyword(s, loc, LitPublickey)>>}} : TRUE

IP_ADDRESS(s, loc) ==
  IF loc = Fail THEN Fail
  ELSE CHOOSE r \in
         {FirstMatching(<<ipv4_address(s, p), ipv6_address(s, p)>>) :
            p \in {PreParse(s, loc, White)}} : TRUE

\* a user name of letters only
USERNAME_AlphasOnly(s, loc) == Word(s, loc, alphas, 0, FALSE)

USERNAME(s, loc) == Word(s, loc, alphanums, 0, FALSE)

PortMax == 5

PORT(s, loc) == Word(s, loc, nums, PortMax, maxLookahead)

FingerprintChars == {":"} \cup hexnums

\* a fingerprint of hex digits only, without the colons
FINGER_PRINT_HexOnly(s, loc) ==
  IF loc = Fail THEN Fail
  ELSE CHOOSE r \in
         {WordHere(s, p, hexnums, 0, FALSE) :
            p \in {LiteralHere(s, PreParse(s, loc, White), LitRSA)}} : TRUE

\* Combine: whitespace is skipped before it, never inside it
FINGER_PRINT(s, loc) ==
  IF loc = Fail THEN Fail
  ELSE CHOOSE r \in
         {WordHere(s, p, FingerprintChars, 0, FALSE) :
            p \in {LiteralHere(s, PreParse(s, loc, White), LitRSA)}} : TRUE

\* Optional(Literal(':') + _FINGER_PRINT): stays where it was when the clause
\* does not match
OPTIONAL_FINGER_PRINT(s, loc) ==
  IF loc = Fail THEN Fail
  ELSE CHOOSE r \in
         {IF f = Fail THEN loc ELSE f :
            f \in {FINGER_PRINT(s, Literal(s, loc, LitColon))}} : TRUE

----------------------------------------------------------------------------
(* The grammars: the elements each one matches in order, a named element   *)
(* with its results name.                                                  *)

El(parse, lit, name) == [parse |-> parse, lit |-> lit, name |-> name]

LOGIN_GRAMMAR ==
  <<El("Literal", LitAccepted, ""),
    El("AUTHENTICATION_METHOD", <<>>, "authentication_method"),
    El("Literal", LitFor, ""),
    El("USERNAME", <<>>, "username"),
    El("Literal", LitFrom, ""),
    El("IP_ADDRESS", <<>>, "address"),
    El("Literal", LitPort, ""),
    El("PORT", <<>>, "port"),
    El("Literal", LitSsh2, "protocol"),
    El("OPTIONAL_FINGER_PRINT", <<>>, "fingerprint"),
    El("StringEnd", <<>>, "")>>

FAILED_CONNECTION_GRAMMAR ==
  <<El("Literal", LitFailed, ""),
    El("AUTHENTICATION_METHOD", <<>>, "authentication_method"),
    El("Literal", LitFor, ""),
    El("USERNAME", <<>>, "username"),
    El("Literal", LitFrom, ""),
    El("IP_ADDRESS", <<>>, "address"),
    El("Literal", LitPort, ""),
    El("PORT", <<>>, "port"),
    El("StringEnd", <<>>, "")>>

OPENED_CONNECTION_GRAMMAR ==
  <<El("Literal", LitConnectionFrom, ""),
    El("IP_ADDRESS", <<>>, "address"),
    El("Literal", LitPort, ""),
    El("PORT", <<>>, "port"),
    El("LineEnd", <<>>, "")>>

\* the position after element e, matched at loc
ElementEnd(e, s, loc) ==
  CASE e.parse = "Literal" -> Literal(s, loc, e.lit)
    [] e.parse = "AUTHENTICATION_METHOD" -> AUTHENTICATION_METHOD(s, loc)
    [] e.parse = "USERNAME" -> USERNAME(s, loc)
    [] e.parse = "IP_ADDRESS" -> IP_ADDRESS(s, loc)
    [] e.parse = "PORT" -> PORT(s, loc)
    [] e.parse = "OPTIONAL_FINGER_PRINT" -> OPTIONAL_FINGER_PRINT(s, loc)
    [] e.parse = "StringEnd" -> StringEnd(s, loc)
    [] e.parse = "LineEnd" -> LineEnd(s, loc)

\* the text kept under the results name of e, matched from loc to end: of
\* the optional clause, the fingerprint after the colon
ElementText(e, s, loc, end) ==
  IF e.parse = "OPTIONAL_FINGER_PRINT"
    THEN Text(s, Literal(s, loc, LitColon), end)
    ELSE Text(s, loc, end)

\* the parse results st after element e matched up to end
ElementResult(e, s, st, end) ==
  IF end = Fail THEN [loc |-> Fail, tokens |-> <<>>]
  ELSE IF e.name = "" \/ end = st.loc THEN [loc |-> end, tokens |-> st.tokens]
  ELSE [loc |-> end,
        tokens |-> st.tokens @@ (e.name :> ElementText(e, s, st.loc, end))]

\* And: the elements of g from the n-th on, matched one after the other
RECURSIVE And(_, _, _, _)
And(g, s, n, st) ==
  IF n > Len(g) \/ st.loc = Fail THEN st
  ELSE CHOOSE r \in
         {And(g, s, m, ElementResult(g[n], s, st, end)) :
            m \in {n + 1}, end \in {ElementEnd(g[n], s, st.loc)}} : TRUE

\* grammar.parseString(body): [loc, tokens], loc = Fail for a ParseException,
\* tokens the named results of ParseResults.asDict()
parseString(g, s) == And(g, s, 1, [loc |-> 1, tokens |-> <<>>])

----------------------------------------------------------------------------
(* MESSAGE_GRAMMARS, classification and _ParseMessage.                     *)

\* an attribute that is None
None == <<"None">>

NoMatch == "no match"

\* the names of MESSAGE_GRAMMARS, in declared order
MESSAGE_GRAMMARS == <<"login", "failed_connection", "opened_connection">>

\* MESSAGE_GRAMMARS with the login grammar listed under failed_connection too
GrammarOfLoginTwice(k) ==
  CASE k = "login" -> LOGIN_GRAMMAR
    [] k = "failed_connection" -> LOGIN_GRAMMAR
    [] k = "opened_connection" -> OPENED_CONNECTION_GRAMMAR

\* the grammar MESSAGE_GRAMMARS pairs with a name
GrammarOf(k) ==
  CASE k = "login" -> LOGIN_GRAMMAR
    [] k = "failed_connection" -> FAILED_CONNECTION_GRAMMAR
    [] k = "opened_connection" -> OPENED_CONNECTION_GRAMMAR

\* whether the grammar of that name matches the body
Matches(k, s) == parseString(GrammarOf(k), s).loc # Fail

SUPPORTED_KEYS == {MESSAGE_GRAMMARS[i] : i \in 1..Len(MESSAGE_GRAMMARS)}

\* try the grammars in the given order; the first that matches wins
RECURSIVE ClassifyFrom(_, _)
ClassifyFrom(n, s) ==
  IF n > Len(MESSAGE_GRAMMARS) THEN [key |-> NoMatch, tokens |-> <<>>]
  ELSE CHOOSE c \in
         {IF r.loc # Fail
            THEN [key |-> MESSAGE_GRAMMARS[n], tokens |-> r.tokens]
            ELSE ClassifyFrom(m, s) :
            m \in {n + 1},
            r \in {parseString(GrammarOf(MESSAGE_GRAMMARS[n]), s)}} : TRUE

classify(s) == ClassifyFrom(1, s)

\* tokens.get(name, ''): the empty string for a missing token
GetEmptyDefault(toks, name) == IF name \in DOMAIN toks THEN toks[name] ELSE <<>>

\* tokens.get(name, None)
Get(toks, name) == IF name \in DOMAIN toks THEN toks[name] ELSE None

DATA_TYPE(k) ==
  CASE k = "login" -> "syslog:ssh:login"
    [] k = "failed_connection" -> "syslog:ssh:failed_connection"
    [] k = "opened_connection" -> "syslog:ssh:opened_connection"

\* username filled from the authentication_method token
EventDataWrongToken(k, date_time, toks) ==
  [data_type |-> DATA_TYPE(k),
   address |-> Get(toks, "address"),
   authentication_method |-> Get(toks, "authentication_method"),
   body |-> Get(toks, "body"),
   fingerprint |-> Get(toks, "fingerprint"),
   hostname |-> Get(toks, "hostname"),
   last_written_time |-> date_time,
   pid |-> Get(toks, "pid"),
   protocol |-> Get(toks, "protocol"),
   port |-> Get(toks, "port"),
   reporter |-> Get(toks, "reporter"),
   severity |-> Get(toks, "severity"),
   username |-> Get(toks, "authentication_method")]

\* the event data _ParseMessage fills in for a supported key
EventData(k, date_time, toks) ==
  [data_type |-> DATA_TYPE(k),
   address |-> Get(toks, "address"),
   authentication_method |-> Get(toks, "authentication_method"),
   body |-> Get(toks, "body"),
   fingerprint |-> Get(toks, "fingerprint"),
   hostname |-> Get(toks, "hostname"),
   last_written_time |-> date_time,
   pid |-> Get(toks, "pid"),
   protocol |-> Get(toks, "protocol"),
   port |-> Get(toks, "port"),
   reporter |-> Get(toks, "reporter"),
   severity |-> Get(toks, "severity"),
   username |-> Get(toks, "username")]

\* _ParseMessage without its check of the key: no event data class is chosen
\* for an unknown key and filling it in fails
ParseMessageUnchecked(k, date_time, toks) ==
  IF k \notin SUPPORTED_KEYS
    THEN [error |-> "UnboundLocalError", produced |-> <<>>]
    ELSE [error |-> "none", produced |-> <<EventData(k, date_time, toks)>>]

\* _ParseMessage: the error it raises and the event data it produces
ParseMessage(k, date_time, toks) ==
  IF k \notin SUPPORTED_KEYS
    THEN [error |-> "ParseError", produced |-> <<>>]
    ELSE [error |-> "none", produced |-> <<EventData(k, date_time, toks)>>]

\* the tokens of the syslog line the caller supplies with a body
Context(b) ==
  ("body" :> b)
  @@ ("hostname" :> <<"h", "o", "s", "t">>)
  @@ ("pid" :> <<"4", "2">>)
  @@ ("reporter" :> <<"s", "s", "h", "d">>)
  @@ ("severity" :> <<"i", "n", "f", "o">>)

DateTime == "2023-01-01T00:00:00"

----------------------------------------------------------------------------
(* Inputs: bodies rendered from the grammars' keywords and field values,   *)
(* followed by a trailer, and bodies that are no SSH message.              *)

MaxTrail == 2

MaxCalls == 2

Sp == <<" ">>

ValidAuths == {LitPassword, LitPublickey}

BadAuths ==
  {<<"p", "a", "s", "s", "w", "o", "r", "d", "s">>,
   <<"p", "u", "b", "l", "i", "c", "k", "e", "y", "2">>,
   <<"P", "a", "s", "s", "w", "o", "r", "d">>,
   <<"p", "a", "s", "s", "w", "o", "r", "d", "_">>,
   <<"p", "a", "s", "s", "w", "o", "r", "d", "-", "x">>,
   <<"h", "o", "s", "t", "b", "a", "s", "e", "d">>,
   <<"p", "a", "s", "s">>}

Users == {<<"a", "l", "i", "c", "e">>,
          <<"B", "o", "b", "7">>}

ValidAddrs ==
  {<<"1", "0", ".", "0", ".", "0", ".", "5">>,
   <<"2", "5", "5", ".", "2", "5", "5", ".", "2", "5", "5", ".", "2", "4", "9">>,
   <<"2", "0", "0", "1", ":", "d", "b", "8", ":", ":", "1">>,
   <<":", ":", "1">>,
   <<"1", ":", "2", ":", "3", ":", "4", ":", "5", ":", "6", ":", "7", ":", "8">>,
   <<":", ":", "f", "f", "f", "f", ":", "1", "0", ".", "0", ".", "0", ".", "5">>}

BadAddrs ==
  {<<"1", "0", ".", "0", ".", "0">>,
   <<"2", "5", "6", ".", "1", ".", "1", ".", "1">>,
   <<"1", "0", ".", "0", ".", "0", ".", "2", "5", "6">>,
   <<"1", ":", "2", ":", "3">>,
   <<"1", "2", "3", "4", "5", ":", ":", "1">>,
   <<"1", ":", "2", ":", "3", ":", "4", ":", ":", "5", ":", "6", ":", "7", ":", "8">>,
   <<"l", "o", "c", "a", "l", "h", "o", "s", "t">>}

ValidPorts == {<<"7">>,
               <<"2", "2">>,
               <<"6", "5", "5", "3", "5">>}

BadPorts == {<<"6", "5", "5", "3", "5", "0">>,
             <<"2", "a">>,
             <<"-", "1">>}

\* <<>> stands for a body without the fingerprint clause
Fingerprints == {<<>>,
                 <<"R", "S", "A", " ", "0", "a", ":", "B", "f", ":", "c", "3">>}

TrailChars == {" ", "\n", "3", "x", ":"}

\* well-formed fingerprint clauses, some followed by whitespace
ClauseTrailers ==
  {<<":", " ", "R", "S", "A", " ", "a", "a", ":", "b", "1">>,
   <<":", "R", "S", "A", " ", "a", "a">>,
   <<":", " ", "R", "S", "A", " ", "a", "a", " ", "\n">>}

ExtraTrailers ==
  {<<":", " ", "R", "S", "A">>,
   <<":", " ", "R", "S", "A", " ", " ", "a", "a">>,
   <<":", " ", "D", "S", "A", " ", "a", "a">>,
   <<":", " ", "R", "S", "A", " ", "z", "z">>,
   <<"\n", "f", "o", "o", " ", "1">>,
   <<" ", "\r", "\n", "n", "e", "x", "t", " ", "l", "i", "n", "e">>,
   <<"\t">>,
   <<"\r">>,
   <<" ", "e", "x", "t", "r", "a">>,
   <<"\t", "\n">>}

Trailers ==
  UNION {[1..n -> TrailChars] : n \in 0..MaxTrail}
    \cup ClauseTrailers \cup ExtraTrailers

ForeignBodies ==
  {<<"T", "h", "i", "s", " ", "i", "s", " ", "n", "o", "t", " ", "a", "n", " ", "S", "S", "H", " ", "m", "e", "s", "s", "a", "g", "e">>,
   <<"A", "c", "c", "e", "p", "t", "e", "d">>,
   <<"s", "e", "s", "s", "i", "o", "n", " ", "o", "p", "e", "n", "e", "d", " ", "f", "o", "r", " ", "u", "s", "e", "r", " ", "r", "o", "o", "t">>,
   <<"C", "o", "n", "n", "e", "c", "t", "i", "o", "n", " ", "c", "l", "o", "s", "e", "d", " ", "b", "y", " ", "1", "0", ".", "0", ".", "0", ".", "5", " ", "p", "o", "r", "t", " ", "2", "2">>,
   <<"C", "o", "n", "n", "e", "c", "t", "i", "o", "n", " ", " ", "f", "r", "o", "m", " ", "1", "0", ".", "0", ".", "0", ".", "5", " ", "p", "o", "r", "t", " ", "2", "2">>,
   <<"a", "c", "c", "e", "p", "t", "e", "d", " ", "p", "a", "s", "s", "w", "o", "r", "d", " ", "f", "o", "r", " ", "a", "l", "i", "c", "e", " ", "f", "r", "o", "m", " ", "1", "0", ".", "0", ".", "0", ".", "5", " ", "p", "o", "r", "t", " ", "2", "2", " ", "s", "s", "h", "2">>,
   <<"F", "a", "i", "l", "e", "d", " ", "n", "o", "n", "e", " ", "f", "o", "r", " ", "a", "l", "i", "c", "e", " ", "f", "r", "o", "m", " ", "1", "0", ".", "0", ".", "0", ".", "5", " ", "p", "o", "r", "t", " ", "2", "2">>,
   <<"A", "c", "c", "e", "p", "t", "e", "d", " ", "p", "a", "s", "s", "w", "o", "r", "d", " ", "f", "o", "r", " ", "a", "l", "i", "c", "e", " ", "f", "r", "o", "m", " ", "1", "0", ".", "0", ".", "0", ".", "5", " ", "p", "o", "r", "t", " ", "2", "2", " ", "s", "s", "h", "1">>}

Mk(shape, auth, user, addr, port, fp, trailer) ==
  [shape |-> shape, auth |-> auth, user |-> user, addr |-> addr,
   port |-> port, fp |-> fp, trailer |-> trailer]

\* the addresses and ports the bodies with a trailer are rendered with
TrailAddrs == {<<"1", "0", ".", "0", ".", "0", ".", "5">>, <<"2", "0", "0", "1", ":", "d", "b", "8", ":", ":", "1">>}

TrailPorts == {<<"2", "2">>, <<"6", "5", "5", "3", "5">>}

Inputs ==
  {Mk("login", a, u, ad, p, f, <<>>) :
     a \in ValidAuths, u \in Users, ad \in ValidAddrs, p \in ValidPorts,
     f \in Fingerprints}
  \cup {Mk("failed_connection", a, u, ad, p, <<>>, <<>>) :
     a \in ValidAuths, u \in Users, ad \in ValidAddrs, p \in ValidPorts}
  \cup {Mk("opened_connection", <<>>, <<>>, ad, p, <<>>, <<>>) :
     ad \in ValidAddrs, p \in ValidPorts}
  \cup {Mk("login", a, <<"a", "l", "i", "c", "e">>, ad, p, f, t) :
     a \in ValidAuths, ad \in TrailAddrs, p \in TrailPorts,
     f \in Fingerprints, t \in Trailers}
  \cup {Mk("failed_connection", a, <<"a", "l", "i", "c", "e">>, ad, p, <<>>, t) :
     a \in ValidAuths, ad \in TrailAddrs, p \in TrailPorts, t \in Trailers}
  \cup {Mk("opened_connection", <<>>, <<>>, ad, p, <<>>, t) :
     ad \in TrailAddrs, p \in TrailPorts, t \in Trailers}
  \cup {Mk(sh, a, u, <<"1", "0", ".", "0", ".", "0", ".", "5">>, <<"2", "2">>, f, <<>>) :
     sh \in {"login", "failed_connection"}, a \in BadAuths, u \in Users,
     f \in Fingerprints}
  \cup {Mk(sh, LitPassword, <<"a", "l", "i", "c", "e">>, ad, p, <<>>, <<>>) :
     sh \in SUPPORTED_KEYS, ad \in BadAddrs, p \in ValidPorts}
  \cup {Mk(sh, LitPublickey, <<"a", "l", "i", "c", "e">>, ad, p, <<>>, <<>>) :
     sh \in SUPPORTED_KEYS, ad \in ValidAddrs, p \in BadPorts}
  \cup {Mk("foreign", <<>>, <<>>, <<>>, <<>>, <<>>, t) : t \in ForeignBodies}

Clause(fp) == IF fp = <<>> THEN <<>> ELSE <<":", " ">> \o fp

Render(i) ==
  CASE i.shape = "login" ->
         LitAccepted \o Sp \o i.auth \o Sp \o LitFor \o Sp \o i.user \o Sp
           \o LitFrom \o Sp \o i.addr \o Sp \o LitPort \o Sp \o i.port \o Sp
           \o LitSsh2 \o Clause(i.fp) \o i.trailer
    [] i.shape = "failed_connection" ->
         LitFailed \o Sp \o i.auth \o Sp \o LitFor \o Sp \o i.user \o Sp
           \o LitFrom \o Sp \o i.addr \o Sp \o LitPort \o Sp \o i.port
           \o i.trailer
    [] i.shape = "opened_connection" ->
         LitConnectionFrom \o Sp \o i.addr \o Sp \o LitPort \o Sp \o i.port
           \o i.trailer
    [] OTHER -> i.trailer

----------------------------------------------------------------------------
(* The pipeline for one line: classify the body, then build the record or  *)
(* skip the line.                                                          *)

Init ==
  /\ input \in Inputs
  /\ body = Render(input)
  /\ maxLookahead \in BOOLEAN
  /\ pc = "start"
  /\ key = NoMatch
  /\ tokens = <<>>
  /\ sink = <<>>
  /\ error = "none"
  /\ calls = 0

\* classification that raises an error when no grammar matches
ClassifyRaising ==
  /\ pc = "start"
  /\ \E c \in {classify(body)} :
       /\ key' = c.key
       /\ tokens' = c.tokens
       /\ pc' = IF c.key = NoMatch THEN "nomatch" ELSE "matched"
       /\ error' = IF c.key = NoMatch THEN "WrongPlugin" ELSE error
  /\ UNCHANGED <<input, body, maxLookahead, sink, calls>>

Classify ==
  /\ pc = "start"
  /\ \E c \in {classify(body)} :
       /\ key' = c.key
       /\ tokens' = c.tokens
       /\ pc' = IF c.key = NoMatch THEN "nomatch" ELSE "matched"
  /\ UNCHANGED <<input, body, maxLookahead, sink, error, calls>>

\* the tokens of the line, updated with those of the grammar, go to
\* _ParseMessage
BuildRecord ==
  /\ pc = "matched"
  /\ \E r \in {ParseMessage(key, DateTime, tokens @@ Context(body))} :
       /\ error' = r.error
       /\ sink' = sink \o r.produced
  /\ pc' = "done"
  /\ UNCHANGED <<input, body, maxLookahead, key, tokens, calls>>

SkipLine ==
  /\ pc = "nomatch"
  /\ pc' = "done"
  /\ UNCHANGED <<input, body, maxLookahead, key, tokens, sink, error, calls>>

Next == Classify \/ BuildRecord \/ SkipLine

Spec == Init /\ [][Next]_vars

----------------------------------------------------------------------------
(* _ParseMessage called directly, with any key and any token mapping.      *)

CallKeys == SUPPORTED_KEYS \cup {"closed_connection", ""}

CallTokens ==
  {<<>>,
   ("address" :> <<"1", "0", ".", "0", ".", "0", ".", "5">>) @@ ("port" :> <<"2", "2">>),
   ("username" :> <<"a", "l", "i", "c", "e">>),
   ("address" :> <<"1", "0", ".", "0", ".", "0", ".", "5">>) @@ ("port" :> <<"2", "2">>) @@ ("username" :> <<"a", "l", "i", "c", "e">>)
     @@ ("authentication_method" :> LitPassword) @@ ("protocol" :> LitSsh2)}

InitCalls ==
  /\ input = Mk("foreign", <<>>, <<>>, <<>>, <<>>, <<>>, <<>>)
  /\ body = <<>>
  /\ maxLookahead = TRUE
  /\ pc = "call"
  /\ key = NoMatch
  /\ tokens = <<>>
  /\ sink = <<>>
  /\ error = "none"
  /\ calls = 0

ParseMessageCall(k, toks) ==
  /\ pc = "call"
  /\ calls < MaxCalls
  /\ calls' = calls + 1
  /\ key' = k
  /\ tokens' = toks
  /\ \E r \in {ParseMessage(k, DateTime, toks)} :
       /\ error' = r.error
       /\ sink' = sink \o r.produced
  /\ UNCHANGED <<input, body, maxLookahead, pc>>

NextCalls == \E k \in CallKeys, toks \in CallTokens : ParseMessageCall(k, toks)

SpecCalls == InitCalls /\ [][NextCalls]_vars

----------------------------------------------------------------------------
(* Vocabulary of the properties, stated on the input a body was rendered   *)
(* from.                                                                   *)

KnownCategories == {"login", "failed_connection", "opened_connection"}

\* every typed field of the rendering has a valid value
ValidInput(i) ==
  /\ i.shape \in KnownCategories
  /\ i.addr \in ValidAddrs
  /\ i.port \in ValidPorts
  /\ i.shape # "opened_connection" => i.auth \in ValidAuths /\ i.user \in Users

\* the token mapping whose fields are the values used in the rendering
Expected(i) ==
  LET conn == ("address" :> i.addr) @@ ("port" :> i.port)
      auth == ("authentication_method" :> i.auth) @@ ("username" :> i.user)
  IN  CASE i.shape = "opened_connection" -> conn
        [] i.shape = "failed_connection" -> conn @@ auth
        [] i.shape = "login" ->
             IF i.fp = <<>> THEN conn @@ auth @@ ("protocol" :> LitSsh2)
             ELSE conn @@ auth @@ ("protocol" :> LitSsh2)
                    @@ ("fingerprint" :> i.fp)

AllWhite(t) == \A n \in 1..Len(t) : t[n] \in {" ", "\t", "\n", "\r"}

\* length of the longest prefix of t made of chars
LeadLen(t, chars) ==
  IF \A n \in 1..Len(t) : t[n] \in chars THEN Len(t)
  ELSE (CHOOSE n \in 1..Len(t) :
          t[n] \notin chars /\ \A m \in 1..(n - 1) : t[m] \in chars) - 1

Rest(t, k) == SubSeq(t, k + 1, Len(t))

HexColon ==
  {":", "0", "1", "2", "3", "4", "5", "6", "7", "8", "9",
   "A", "B", "C", "D", "E", "F", "a", "b", "c", "d", "e", "f"}

Digits == {"0", "1", "2", "3", "4", "5", "6", "7", "8", "9"}

\* the trailer is whitespace only, or the grammar reads it as part of the
\* message: more digits of the port (five at most), more characters of the
\* fingerprint, or the fingerprint clause after ssh2; whitespace may follow
Continues(i) ==
  CASE i.shape = "failed_connection" ->
         LET k == LeadLen(i.trailer, Digits)
         IN  Len(i.port) + k <= 5 /\ AllWhite(Rest(i.trailer, k))
    [] i.shape = "login" /\ i.fp # <<>> ->
         AllWhite(Rest(i.trailer, LeadLen(i.trailer, HexColon)))
    [] i.shape = "login" /\ i.fp = <<>> ->
         AllWhite(i.trailer) \/ i.trailer \in ClauseTrailers

\* the trailer has content on the line of the rendering: something other
\* than whitespace comes before any line break.  Content starts where the
\* digits of the port end.
SameLineContent(t) ==
  LET k == LeadLen(t, {" ", "\t", "\r"})
  IN  k < Len(t) /\ t[k + 1] # "\n" /\ t[1] \notin Digits

\* the body has the text "RSA " somewhere
HasClause(s) ==
  \E n \in 1..Len(s) :
    n + 3 <= Len(s) /\ SubSeq(s, n, n + 3) = <<"R", "S", "A", " ">>

\* the first category, in the given order, whose grammar result is a match
RECURSIVE FirstMatch(_, _)
FirstMatch(order, r) ==
  IF order = <<>> THEN <<NoMatch, <<>>>>
  ELSE IF r[Head(order)].loc # Fail THEN <<Head(order), r[Head(order)].tokens>>
  ELSE FirstMatch(Tail(order), r)

Orders ==
  {<<a, b, c>> : a \in KnownCategories, b \in KnownCategories,
                 c \in KnownCategories} \ 
  {o \in KnownCategories \X KnownCategories \X KnownCategories :
     o[1] = o[2] \/ o[1] = o[3] \/ o[2] = o[3]}

CategoryFields == {"username", "authentication_method", "protocol"}

----------------------------------------------------------------------------
(* Properties.                                                             *)

\* C1: a body that is exactly the rendering of a grammar's keywords with
\* valid field values is classified as that grammar's category, with a token
\* mapping equal to the values rendered.
C1_RenderingClassified ==
  (pc # "start" /\ ValidInput(input) /\ input.trailer = <<>>)
    => key = input.shape /\ tokens = Expected(input)

C1_Witness ==
  /\ pc = "matched"
  /\ key = "login"
  /\ input.trailer = <<>>
  /\ input.user = <<"B", "o", "b", "7">>
  /\ input.addr = <<"2", "0", "0", "1", ":", "d", "b", "8", ":", ":", "1">>
  /\ tokens = Expected(input)

\* C2 as stated: a login or failed_connection rendering followed by one or
\* more further characters of any kind is never classified as that category.
C2_AnyTrailerRejected ==
  (/\ pc # "start"
   /\ ValidInput(input)
   /\ input.shape \in {"login", "failed_connection"}
   /\ input.trailer # <<>>)
    => key # input.shape

\* C2 amended: a login or failed_connection rendering followed by further
\* characters is classified as that category exactly when the further
\* characters are whitespace only or are read by the grammar itself (more
\* port digits, more fingerprint characters, the fingerprint clause), with
\* whitespace after them at most; any other trailer makes the grammar fail.
C2_OnlyWhitespaceMayTrail ==
  (/\ pc # "start"
   /\ ValidInput(input)
   /\ input.shape \in {"login", "failed_connection"}
   /\ input.trailer # <<>>)
    => (key = input.shape <=> Continues(input))

C2_Witness ==
  /\ pc = "nomatch"
  /\ ValidInput(input)
  /\ input.shape = "failed_connection"
  /\ input.trailer = <<" ", "x">>
  /\ key = NoMatch

C4_OpenedNeverPopulates ==
  \A n \in 1..Len(sink) :
    sink[n].data_type = "syslog:ssh:opened_connection"
      => \A f \in CategoryFields : sink[n][f] = None

\* C4 amended: event data produced for opened_connection has username,
\* authentication_method and protocol absent exactly when the token mapping
\* lacks the key; a key the mapping holds is copied to the event data.
C4_OpenedCopiesMapping ==
  (pc = "call" /\ calls > 0 /\ key = "opened_connection")
    => /\ error = "none"
       /\ sink # <<>>
       /\ sink[Len(sink)].data_type = "syslog:ssh:opened_connection"
       /\ \A f \in CategoryFields :
            /\ f \in DOMAIN tokens => sink[Len(sink)][f] = tokens[f]
            /\ f \notin DOMAIN tokens => sink[Len(sink)][f] = None

C4_Witness ==
  /\ pc = "call"
  /\ key = "opened_connection"
  /\ "username" \in DOMAIN tokens
  /\ "protocol" \notin DOMAIN tokens
  /\ sink # <<>>
  /\ sink[Len(sink)].username = <<"a", "l", "i", "c", "e">>
  /\ sink[Len(sink)].protocol = None

\* C5: _ParseMessage called with a key outside the three categories raises
\* the error, produces no event data and leaves the sink as it was.
C5_UnknownCategoryFails ==
  [][(calls' = calls + 1 /\ key' \notin KnownCategories)
       => (error' = "ParseError" /\ sink' = sink)]_vars

C5_Witness ==
  /\ pc = "call"
  /\ key = "closed_connection"
  /\ error = "ParseError"
  /\ calls = 2
  /\ Len(sink) = 1

\* C6: a body no grammar matches is a result of classification and not an
\* error: no error is raised, _ParseMessage is not called and no event data
\* is produced.
C6_NoMatchIsNoError ==
  (pc # "start" /\ \A k \in KnownCategories : ~Matches(k, body))
    => /\ key = NoMatch
       /\ pc \in {"nomatch", "done"}
       /\ error = "none"
       /\ sink = <<>>

C6_Witness ==
  /\ pc = "done"
  /\ body = <<"T", "h", "i", "s", " ", "i", "s", " ", "n", "o", "t", " ", "a", "n", " ", "S", "S", "H", " ", "m", "e", "s", "s", "a", "g", "e">>
  /\ key = NoMatch
  /\ sink = <<>>
  /\ error = "none"

\* C7 as stated: a login body ending at ssh2 matches without fingerprint,
\* one ending with the fingerprint clause matches with the fingerprint as
\* given, and one whose suffix after ssh2 is neither empty nor a well-formed
\* clause does not match.
C7_SuffixEmptyOrClause ==
  (pc # "start" /\ ValidInput(input) /\ input.shape = "login")
    => /\ (input.fp = <<>> /\ input.trailer = <<>>)
            => key = "login" /\ "fingerprint" \notin DOMAIN tokens
       /\ (input.fp # <<>> /\ input.trailer = <<>>)
            => /\ key = "login"
               /\ "fingerprint" \in DOMAIN tokens
               /\ tokens["fingerprint"] = input.fp
       /\ (/\ input.fp = <<>>
           /\ input.trailer # <<>>
           /\ input.trailer \notin ClauseTrailers)
            => key # "login"

\* C7 amended: as C7, but the suffix after ssh2 that makes the body fail is
\* one that is neither whitespace only nor a well-formed clause (with
\* whitespace after it at most).
C7_OptionalFingerprint ==
  (pc # "start" /\ ValidInput(input) /\ input.shape = "login")
    => /\ (input.fp = <<>> /\ input.trailer = <<>>)
            => key = "login" /\ "fingerprint" \notin DOMAIN tokens
       /\ (input.fp # <<>> /\ input.trailer = <<>>)
            => /\ key = "login"
               /\ "fingerprint" \in DOMAIN tokens
               /\ tokens["fingerprint"] = input.fp
       /\ (/\ input.fp = <<>>
           /\ ~AllWhite(input.trailer)
           /\ input.trailer \notin ClauseTrailers)
            => key # "login"

C7_Witness ==
  /\ pc = "nomatch"
  /\ ValidInput(input)
  /\ input.shape = "login"
  /\ input.fp = <<>>
  /\ input.trailer = <<":", " ", "R", "S", "A", " ", " ", "a", "a">>
  /\ key = NoMatch

\* C8: a login or failed_connection rendering with any token other than
\* password or publickey in the place of the authentication method is not
\* classified as login or failed_connection.
C8_AuthenticationMethodExact ==
  (/\ pc # "start"
   /\ input.shape \in {"login", "failed_connection"}
   /\ input.auth \notin {LitPassword, LitPublickey}
   /\ input.user \in Users
   /\ input.addr \in ValidAddrs
   /\ input.port \in ValidPorts)
    => key \notin {"login", "failed_connection"}

C8_Witness ==
  /\ pc = "done"
  /\ input.shape = "failed_connection"
  /\ input.auth = <<"p", "a", "s", "s", "w", "o", "r", "d", "s">>
  /\ input.addr \in ValidAddrs
  /\ key = NoMatch
  /\ sink = <<>>

\* C9: event data produced by classifying a body and building the record has
\* exactly the fields of its category: address and port always; username and
\* authentication_method for login and failed_connection only; protocol for
\* login only; fingerprint for login only, and only when the body has the
\* clause.  A field that does not apply is None, never an empty string.
C9_FieldsOfCategory ==
  (pc = "done" /\ key # NoMatch)
    => /\ Len(sink) = 1
       /\ key \in KnownCategories
       /\ LET r == sink[1]
          IN  /\ r.address # None /\ r.port # None
              /\ key \in {"login", "failed_connection"}
                   => r.username # None /\ r.authentication_method # None
              /\ key = "opened_connection"
                   => r.username = None /\ r.authentication_method = None
              /\ r.protocol # None <=> key = "login"
              /\ r.fingerprint # None => key = "login" /\ HasClause(body)
              /\ (key = "login" /\ input.fp # <<>> /\ input.trailer = <<>>)
                   => r.fingerprint # None
              /\ \A f \in CategoryFields \cup {"address", "port", "fingerprint"} :
                   r[f] # <<>>

C9_Witness ==
  /\ pc = "done"
  /\ key = "opened_connection"
  /\ input.trailer = <<>>
  /\ Len(sink) = 1
  /\ sink[1].username = None
  /\ sink[1].protocol = None
  /\ sink[1].fingerprint = None
  /\ sink[1].address = input.addr

\* C10: at most one of the three grammars matches a body, and the category
\* and token mapping classification returned are those of the first match
\* under every order in which the grammars can be tried.
C10_OrderIndependent ==
  pc \in {"matched", "nomatch"}
    => \A r \in {[k \in KnownCategories |-> parseString(GrammarOf(k), body)]} :
         /\ Cardinality({k \in KnownCategories : r[k].loc # Fail}) <= 1
         /\ \A o \in Orders : FirstMatch(o, r) = <<key, tokens>>

C10_Witness ==
  /\ pc = "matched"
  /\ key = "failed_connection"
  /\ ~Matches("login", body)
  /\ ~Matches("opened_connection", body)
  /\ input.trailer = <<"\n">>

====
